---- MODULE Spec2Model ----
(***************************************************************************)
(* Model of the good-mood-generator page state:                            *)
(*   - the quote selector (src/src/composables/useQuotes.ts)               *)
(*   - the theme toggle   (src/src/components/ThemeToggle.vue)             *)
(* Both live on the same page (HomeView.vue) and share no state.           *)
(***************************************************************************)
EXTENDS Integers, Sequences, FiniteSets, TLC

\* ---------------------------------------------------------------- bounds
MaxLen == 4          \* longest quote collection explored
MaxToggles == 3      \* user toggles explored per page session
MaxPicks == 2        \* nextQuote calls explored per page session

\* ------------------------------------------------------------- constants
Null == [text |-> 0]                    \* JS null (no quote has text 0)
Absent == "<null>"                      \* localStorage.getItem -> null
Unread == "<unread>"                    \* `saved` before line 28 has run
StoredValues == {Absent, "dark", "light", "Dark"}
StoreModes == {"ok", "denied", "readonly"}

VARIABLES
    quotes,         \* the imported collection (fixed after load)
    currentIndex,   \* ref(0)
    qpc,            \* "idle" | "loop": position inside pickNewIndex
    current,        \* pickNewIndex parameter
    next,           \* pickNewIndex local
    picks,          \* calls of nextQuote in this session
    isDark,         \* ref(false)
    attr,           \* <html data-theme>, "none" when not set
    stored,         \* localStorage[STORAGE_KEY]
    storeMode,      \* how localStorage behaves in this browser
    mmAvail,        \* typeof window.matchMedia === "function"
    osDark,         \* matchMedia("(prefers-color-scheme: dark)").matches
    tpc,            \* "setup" | "mounted" | "failed": onMounted hook
    saved,          \* const saved of onMounted
    osQueried,      \* matchMedia was called by this session's onMounted
    watchOld,       \* old value held by watch(isDark)
    watchPending,   \* watcher job queued, not yet flushed
    faults,         \* an exception escaped a handler in this session
    applyCalls,     \* calls of applyTheme in this session
    toggles,        \* user toggles in this session
    lastPersisted,  \* <<dark>> of the last applyTheme(dark) that persisted
    priorCompleted  \* an earlier page session completed its startup

quoteVars == <<quotes, currentIndex, qpc, current, next, picks>>
themeVars == <<isDark, attr, stored, storeMode, mmAvail, osDark, tpc, saved,
               osQueried, watchOld, watchPending, faults, applyCalls,
               toggles, lastPersisted, priorCompleted>>
vars == <<quotes, currentIndex, qpc, current, next, picks,
          isDark, attr, stored, storeMode, mmAvail, osDark, tpc, saved,
          osQueried, watchOld, watchPending, faults, applyCalls,
          toggles, lastPersisted, priorCompleted>>

\* ======================================================== quote selector

\* a collection of n records with distinct texts
MkQuotes(n) == [i \in 1..n |-> [text |-> i]]

\* `if (length <= 1) return 0;` with a wrong comparison
EarlyReturnStrict(length) == length < 1

\* the guard of the early return of pickNewIndex
EarlyReturn(length) == length <= 1

\* Math.round instead of Math.floor
DrawRangeRound(length) == 0..length

\* Math.floor(Math.random()) * length
DrawRangeZero(length) == {0}

\* the values Math.floor(Math.random() * length) can take
DrawRange(length) == 0..(length - 1)

\* the loop reads past the end: quotes[i + 1]
CurrentQuoteShifted(q, i) ==
    IF Len(q) = 0 THEN Null
    ELSE IF (i + 2) \in DOMAIN q THEN q[i + 2] ELSE Null

\* the computed currentQuote (sequences are 1-based, the array 0-based)
CurrentQuote(q, i) ==
    IF Len(q) = 0 THEN Null
    ELSE IF (i + 1) \in DOMAIN q THEN q[i + 1] ELSE Null

\* nextQuote up to the first loop test of pickNewIndex
NextQuote ==
    /\ qpc = "idle"
    /\ picks < MaxPicks
    /\ picks' = picks + 1
    /\ IF EarlyReturn(Len(quotes))
       THEN /\ currentIndex' = 0
            /\ UNCHANGED <<qpc, current, next>>
       ELSE /\ qpc' = "loop"
            /\ current' = currentIndex
            /\ next' = currentIndex
            /\ UNCHANGED currentIndex
    /\ UNCHANGED <<quotes>>
    /\ UNCHANGED themeVars

\* one iteration of `while (next === current)`
LoopDraw(r) ==
    /\ qpc = "loop"
    /\ next = current
    /\ r \in DrawRange(Len(quotes))
    /\ next' = r
    /\ UNCHANGED <<quotes, currentIndex, qpc, current, picks>>
    /\ UNCHANGED themeVars

\* the loop test fails: return next, nextQuote stores it
LoopReturn ==
    /\ qpc = "loop"
    /\ next # current
    /\ currentIndex' = next
    /\ qpc' = "idle"
    /\ UNCHANGED <<quotes, current, next, picks>>
    /\ UNCHANGED themeVars

\* ========================================================== theme toggle

\* const theme = dark ? "dark" : "light"
ThemeString(dark) == IF dark THEN "dark" ELSE "light"

\* only "dark" is recognised as a saved choice
IsSavedChoiceDarkOnly(s) == s = "dark"

\* saved === "dark" || saved === "light"
IsSavedChoice(s) == s = "dark" \/ s = "light"

\* the media query asks for the light scheme
OsPrefersDarkInverted(avail, matches) == avail /\ ~matches

\* typeof window.matchMedia === "function" && matchMedia(...).matches
OsPrefersDark(avail, matches) == avail /\ matches

\* the value isDark takes in onMounted
Resolve(s, avail, matches) ==
    IF IsSavedChoice(s) THEN s = "dark" ELSE OsPrefersDark(avail, matches)

\* the setItem call is missing
SetItemDropped(mode, old, theme) == old

\* localStorage.setItem(STORAGE_KEY, theme): the stored value afterwards
SetItem(mode, old, theme) == IF mode = "ok" THEN theme ELSE old

\* the watcher never fires
WatchTriggersNever(old, new) == FALSE

\* watch(isDark, ...) runs its callback when the value changed
WatchTriggers(old, new) == old # new

\* the effect of applyTheme(dark) on attr, stored, lastPersisted, applyCalls;
\* TRUE in `threw` when localStorage raised
ApplyTheme(dark, threw) ==
    /\ attr' = ThemeString(dark)
    /\ stored' = SetItem(storeMode, stored, ThemeString(dark))
    /\ lastPersisted' = IF storeMode = "ok" THEN <<dark>> ELSE lastPersisted
    /\ applyCalls' = applyCalls + 1
    /\ threw = (storeMode # "ok")

\* the onMounted hook, as one synchronous step
OnMounted ==
    /\ tpc = "setup"
    /\ IF storeMode = "denied"
       THEN \* line 28 raises: nothing after it runs
            /\ tpc' = "failed"
            /\ faults' = TRUE
            /\ UNCHANGED <<isDark, attr, stored, saved, osQueried, watchOld,
                           watchPending, applyCalls, lastPersisted>>
       ELSE /\ saved' = stored
            /\ isDark' = Resolve(stored, mmAvail, osDark)
            /\ osQueried' = (~IsSavedChoice(stored) /\ mmAvail)
            /\ watchPending' = (isDark' # isDark)
            /\ \E threw \in BOOLEAN :
                  /\ ApplyTheme(isDark', threw)
                  /\ tpc' = IF threw THEN "failed" ELSE "mounted"
                  /\ faults' = threw
            /\ UNCHANGED watchOld
    /\ UNCHANGED <<storeMode, mmAvail, osDark, toggles, priorCompleted>>
    /\ UNCHANGED quoteVars

\* the queued watcher job runs (before the next user event)
FlushWatcher ==
    /\ watchPending
    /\ watchPending' = FALSE
    /\ watchOld' = isDark
    /\ IF WatchTriggers(watchOld, isDark)
       THEN \E threw \in BOOLEAN :
               /\ ApplyTheme(isDark, threw)
               /\ faults' = (faults \/ threw)
       ELSE UNCHANGED <<attr, stored, lastPersisted, applyCalls, faults>>
    /\ UNCHANGED <<isDark, storeMode, mmAvail, osDark, tpc, saved, osQueried,
                   toggles, priorCompleted>>
    /\ UNCHANGED quoteVars

\* the user flips the checkbox bound to isDark by v-model
Toggle ==
    /\ tpc # "setup"
    /\ ~watchPending
    /\ toggles < MaxToggles
    /\ isDark' = ~isDark
    /\ watchPending' = TRUE
    /\ toggles' = toggles + 1
    /\ UNCHANGED <<attr, stored, storeMode, mmAvail, osDark, tpc, saved,
                   osQueried, watchOld, faults, applyCalls, lastPersisted,
                   priorCompleted>>
    /\ UNCHANGED quoteVars

\* the page is loaded again: the script state is rebuilt, the store is kept
Reload ==
    /\ tpc # "setup"
    /\ ~watchPending
    /\ qpc = "idle"
    /\ \E a \in BOOLEAN, d \in BOOLEAN :
          /\ mmAvail' = a
          /\ osDark' = d
    /\ priorCompleted' = (priorCompleted \/ tpc = "mounted")
    /\ isDark' = FALSE
    /\ watchOld' = FALSE
    /\ watchPending' = FALSE
    /\ attr' = "none"
    /\ tpc' = "setup"
    /\ saved' = Unread
    /\ osQueried' = FALSE
    /\ faults' = FALSE
    /\ applyCalls' = 0
    /\ toggles' = 0
    /\ currentIndex' = 0
    /\ picks' = 0
    /\ UNCHANGED <<stored, storeMode, lastPersisted, quotes, qpc, current,
                   next>>

\* ======================================================== specifications

Init ==
    /\ quotes \in {MkQuotes(n) : n \in 0..MaxLen}
    /\ currentIndex = 0
    /\ qpc = "idle"
    /\ current = 0
    /\ next = 0
    /\ picks = 0
    /\ isDark = FALSE
    /\ watchOld = FALSE
    /\ watchPending = FALSE
    /\ attr = "none"
    /\ stored \in StoredValues
    /\ storeMode \in StoreModes
    /\ mmAvail \in BOOLEAN
    /\ osDark \in BOOLEAN
    /\ tpc = "setup"
    /\ saved = Unread
    /\ osQueried = FALSE
    /\ faults = FALSE
    /\ applyCalls = 0
    /\ toggles = 0
    /\ lastPersisted = <<>>
    /\ priorCompleted = FALSE

Next ==
    \/ NextQuote
    \/ \E r \in 0..MaxLen : LoopDraw(r)
    \/ LoopReturn
    \/ OnMounted
    \/ FlushWatcher
    \/ Toggle
    \/ Reload

Spec == Init /\ [][Next]_vars

\* a draw that differs from the current index
LoopDrawDiffers == \E r \in 0..MaxLen : LoopDraw(r) /\ r # current

\* the random source is fair: a differing value is eventually drawn, and
\* the synchronous loop keeps running
FairSpec == Spec /\ WF_vars(LoopDrawDiffers) /\ WF_vars(LoopReturn)

\* ================================================================ claims

\* a call of nextQuote returns in this step
PickReturns == (NextQuote \/ LoopReturn) /\ qpc' = "idle"

\* C1: with at least two quotes every nextQuote call ends on an index of
\* [0, length) different from the index before the call.
C1_DifferentIndex ==
    /\ [](Len(quotes) >= 2 => currentIndex \in 0..(Len(quotes) - 1))
    /\ [][(Len(quotes) >= 2 /\ PickReturns) =>
            (/\ currentIndex' \in 0..(Len(quotes) - 1)
             /\ currentIndex' # currentIndex)]_vars

C1_Witness ==
    /\ Len(quotes) = 3 /\ qpc = "idle" /\ picks = 1
    /\ current = 0 /\ currentIndex \in {1, 2}

\* C2: with zero or one quote every nextQuote call returns at once and
\* leaves currentIndex at 0.
C2_DegenerateStaysZero ==
    Len(quotes) <= 1 => (currentIndex = 0 /\ qpc = "idle")

C2_Witness == Len(quotes) = 1 /\ picks = 2 /\ currentIndex = 0 /\ qpc = "idle"

\* C3: currentQuote is null exactly when the collection is empty, and is the
\* record at currentIndex otherwise.
C3_CurrentQuote ==
    /\ (CurrentQuote(quotes, currentIndex) = Null) <=> (Len(quotes) = 0)
    /\ Len(quotes) > 0 =>
          /\ (currentIndex + 1) \in DOMAIN quotes
          /\ CurrentQuote(quotes, currentIndex) = [text |-> currentIndex + 1]

C3_Witness ==
    /\ Len(quotes) = 3 /\ picks >= 1 /\ currentIndex = 2 /\ qpc = "idle"
    /\ CurrentQuote(quotes, currentIndex) = [text |-> 3]

\* C4: a startup that follows a persisting applyTheme(pref) resolves to
\* pref, whatever the OS hint is.
C4_RoundTrip ==
    [][(tpc = "setup" /\ tpc' # "setup" /\ lastPersisted # <<>>) =>
         (tpc' = "mounted" /\ isDark' = lastPersisted[1])]_vars

C4_Witness ==
    /\ tpc = "mounted" /\ priorCompleted /\ toggles = 0 /\ ~watchPending
    /\ isDark /\ mmAvail /\ ~osDark /\ lastPersisted = <<TRUE>>

\* C5: with no saved choice (absent, or a string other than dark/light) the
\* startup resolves to dark exactly when matchMedia exists and reports dark.
C5_OsFallback ==
    (saved # Unread /\ saved # "dark" /\ saved # "light" /\ toggles = 0)
        => (isDark = (mmAvail /\ osDark))

C5_Witness ==
    /\ tpc = "mounted" /\ saved = "Dark" /\ toggles = 0
    /\ mmAvail /\ osDark /\ isDark /\ attr = "dark"

\* C6: the startup never fails, whatever the store and the OS query do.
C6_StartupNeverFails == tpc # "failed"

\* C7: every toggle flips the theme, and once it is handled the attribute
\* and the persisted value both equal the current theme.
C7_ToggleApplied ==
    /\ []((tpc = "mounted" /\ ~watchPending) =>
            (/\ attr = (IF isDark THEN "dark" ELSE "light")
             /\ stored = attr))
    /\ [][(toggles' = toggles + 1) => (isDark' = ~isDark)]_vars

C7_Witness ==
    /\ tpc = "mounted" /\ ~watchPending /\ toggles = 2
    /\ isDark /\ attr = "dark" /\ stored = "dark"

\* C8: applyTheme runs once at startup and once per toggle.
C8_ApplyOncePerEvent ==
    (tpc = "mounted" /\ ~watchPending) => (applyCalls = 1 + toggles)

\* C9: with at least two quotes and a fair random source a nextQuote call
\* that entered the rejection loop returns.
C9_Terminates ==
    (qpc = "loop" /\ Len(quotes) >= 2) ~> (qpc = "idle")

C9_Witness ==
    /\ Len(quotes) = 2 /\ qpc = "idle" /\ picks = 1
    /\ current = 0 /\ next = 1 /\ currentIndex = 1

\* C10: a completed startup leaves "light" or "dark" persisted; a later
\* startup never queries the OS hint and resolves to the persisted value.
C10_PersistedAfterStartup ==
    /\ [](tpc = "mounted" => (stored = "light" \/ stored = "dark"))
    /\ []((priorCompleted /\ tpc # "setup") => ~osQueried)
    /\ [][(priorCompleted /\ tpc = "setup" /\ tpc' # "setup") =>
            (tpc' = "mounted" /\ isDark' = (stored = "dark")
                /\ stored' = stored)]_vars

C10_Witness ==
    /\ priorCompleted /\ tpc = "mounted" /\ toggles = 0 /\ ~watchPending
    /\ ~osQueried /\ ~isDark /\ mmAvail /\ osDark /\ stored = "light"

====
